---- MODULE Spec2Model ----
(***************************************************************************)
(* Dumbcoin (src/dumbcoin.py): a single-process blockchain.  A Blockchain  *)
(* object holds a queue of pending transactions and a reference to the     *)
(* last Block of a singly linked list of proof-of-work blocks; the ledger  *)
(* of balances is obtained by replaying the transactions of the chain in   *)
(* timestamp order.                                                        *)
(*                                                                         *)
(* Strings are sequences of character codes: the codes 0..15 are the hex   *)
(* digits (0..9 are also the decimal digits), larger codes are the other   *)
(* characters and the account names.  sha256 is a library function; it is  *)
(* modelled by a small deterministic mixing function whose hexdigest has   *)
(* DigestLen characters, each the digit 0 or 1, so that a digest with four *)
(* leading zeros is found after a few dozen nonces at most.                *)
(***************************************************************************)
EXTENDS Integers, Sequences, FiniteSets, TLC

\* ---- bounds of the model ------------------------------------------------
MaxLevel == 5        \* complexity_level ranges over 1..MaxLevel
MaxSeed == 1         \* seed_amount ranges over 0..MaxSeed
MaxAmount == 1       \* amounts passed to add_transaction: -1..MaxAmount
MaxClock == 2        \* time.time() runs from 1 to MaxClock
MaxTx == 3           \* transactions of the chain and the queue together
MaxProof == 60       \* get_proof's counter is followed up to MaxProof
DigestLen == 6       \* characters of the modelled hexdigest

\* ---- program constants --------------------------------------------------
PrefixLen == 4       \* the slice [:4] of verify_block and get_proof

None == "None"
Genesis == "genesis"
Senders == {None, "genesis", "adam"}
Recipients == {"genesis", "adam"}
Amounts == (0 - 1)..MaxAmount
\* the timestamp argument: <<>> is the argument left out (None), <<n>> the
\* number n; -1 is a time before the chain was created
Timestamps == {<<>>, <<0 - 1>>, <<0>>}

\* `not timestamp`: None and 0 are falsy
Falsy(ts) == ts = <<>> \/ ts[1] = 0

VARIABLES
    seed_amount,       \* Blockchain.seed_amount
    complexity_level,  \* Blockchain.complexity_level
    transactions,      \* Blockchain.transactions: the pending queue
    blocks,            \* the Block objects built so far, by identity 1..Len
    last_block,        \* Blockchain.last_block: a Block identity, 0 before it is set
    pc,                \* the method the program is in
    index,             \* local of create_genesis_block / mine_block
    timestamp,         \* local of create_genesis_block / mine_block
    block_hash,        \* argument of get_proof
    proof,             \* local of get_proof
    new_block,         \* local of add_block, 0 when unset
    clock,             \* time.time()
    outcome            \* how the last call ended

vars == <<seed_amount, complexity_level, transactions, blocks, last_block, pc,
          index, timestamp, block_hash, proof, new_block, clock, outcome>>

\* ---- strings and sha256 -------------------------------------------------
Minus == 16
Comma == 17
NameCode(s) ==
    CASE s = None -> 18
      [] s = "genesis" -> 19
      [] s = "adam" -> 20
      [] OTHER -> 21

RECURSIVE NatStr(_)
NatStr(n) == IF n < 10 THEN <<n>> ELSE NatStr(n \div 10) \o <<n % 10>>

\* "{}".format(n) of an integer
Str(n) == IF n < 0 THEN <<Minus>> \o NatStr(0 - n) ELSE NatStr(n)

\* json.dumps of a list of transaction dicts: keys in insertion order
RECURSIVE JsonDumps(_)
JsonDumps(txs) ==
    IF txs = <<>> THEN <<>>
    ELSE LET t == Head(txs)
         IN <<NameCode(t.sender), NameCode(t.recipient)>> \o Str(t.amount)
            \o <<Comma>> \o Str(t.timestamp) \o <<Comma>> \o JsonDumps(Tail(txs))

RECURSIVE Absorb(_, _)
Absorb(acc, s) ==
    IF s = <<>> THEN acc
    ELSE Absorb((acc * 31 + Head(s) + 11) % 251, Tail(s))

\* sha256(s.encode()).hexdigest(): the digits of the mixed value, first the
\* most significant
Sha256Hex(s) ==
    LET a == Absorb(5, s)
        v == ((a * a + a) % 251) % (2 ^ DigestLen)
    IN [i \in 1..DigestLen |-> (v \div (2 ^ (DigestLen - i))) % 2]

\* s[:n]
Take(s, n) == SubSeq(s, 1, IF n < Len(s) THEN n ELSE Len(s))

\* "0" * n
Zeros(n) == [i \in 1..n |-> 0]

\* ---- Block --------------------------------------------------------------
GetHash(i, ts, txs) == Sha256Hex(Str(i) \o Str(ts) \o JsonDumps(txs))

\* a Block that forgets its previous_block
Block_NoPrevious(i, ts, txs, p, prev) ==
    [index |-> i, timestamp |-> ts, transactions |-> txs, proof |-> p,
     previous_block |-> 0, hash |-> GetHash(i, ts, txs)]

Block(i, ts, txs, p, prev) ==
    [index |-> i, timestamp |-> ts, transactions |-> txs, proof |-> p,
     previous_block |-> prev, hash |-> GetHash(i, ts, txs)]

\* ---- Blockchain: pure methods -------------------------------------------
VerifyBlock(block) ==
    Take(Sha256Hex(block.hash \o Str(block.proof)), PrefixLen) = Zeros(complexity_level)

\* the test of get_proof's loop
ProofFound(h, p) ==
    Take(Sha256Hex(h \o Str(p)), PrefixLen) = Zeros(complexity_level)

RECURSIVE RecursiveVerify(_)
RecursiveVerify(b) ==
    IF VerifyBlock(blocks[b])
    THEN IF blocks[b].previous_block # 0
         THEN RecursiveVerify(blocks[b].previous_block)
         ELSE TRUE
    ELSE FALSE

VerifyBlockchain == RecursiveVerify(last_block)

RECURSIVE RecursiveTransactions(_)
RecursiveTransactions(b) ==
    blocks[b].transactions \o
    (IF blocks[b].previous_block # 0
     THEN RecursiveTransactions(blocks[b].previous_block)
     ELSE <<>>)

\* list.sort(key=timestamp): a stable sort
RECURSIVE InsertByTimestamp(_, _)
InsertByTimestamp(sorted, t) ==
    IF sorted = <<>> THEN <<t>>
    ELSE IF Head(sorted).timestamp <= t.timestamp
         THEN <<Head(sorted)>> \o InsertByTimestamp(Tail(sorted), t)
         ELSE <<t>> \o sorted

\* a sort that leaves the list in the order it was collected in
SortByTimestamp_KeepsOrder(s) == s

RECURSIVE SortByTimestamp(_)
SortByTimestamp(s) ==
    IF s = <<>> THEN <<>>
    ELSE InsertByTimestamp(SortByTimestamp(SubSeq(s, 1, Len(s) - 1)), s[Len(s)])

GetSettledTransactions == SortByTimestamp(RecursiveTransactions(last_block))

GenesisTransactions(ts) ==
    <<[sender |-> None, recipient |-> Genesis, amount |-> seed_amount,
       timestamp |-> ts, interned |-> TRUE]>>

\* add_transaction_to_ledger without its overdraft test
AddTransactionToLedger_NoOverdraftCheck(transaction, ledger) ==
    LET sender == transaction.sender
        recipient == transaction.recipient
        amount == transaction.amount
    IN IF sender \notin DOMAIN ledger
       THEN [raised |-> "UnknownSender", ledger |-> ledger]
       ELSE LET l1 == [k \in DOMAIN ledger \cup {recipient} |->
                          IF k \in DOMAIN ledger THEN ledger[k] ELSE 0]
                l2 == [l1 EXCEPT ![sender] = @ - amount]
                l3 == [l2 EXCEPT ![recipient] = @ + amount]
            IN [raised |-> "", ledger |-> l3]

\* add_transaction_to_ledger that gives an account it does not hold the
\* balance 0 instead of raising
AddTransactionToLedger_NoSenderCheck(transaction, ledger) ==
    LET sender == transaction.sender
        recipient == transaction.recipient
        amount == transaction.amount
        l0 == [k \in DOMAIN ledger \cup {sender} |->
                  IF k \in DOMAIN ledger THEN ledger[k] ELSE 0]
    IN IF l0[sender] - amount < 0
       THEN [raised |-> "Overdraft", ledger |-> ledger]
       ELSE LET l1 == [k \in DOMAIN l0 \cup {recipient} |->
                          IF k \in DOMAIN l0 THEN l0[k] ELSE 0]
                l2 == [l1 EXCEPT ![sender] = @ - amount]
                l3 == [l2 EXCEPT ![recipient] = @ + amount]
            IN [raised |-> "", ledger |-> l3]

\* a ledger is a function from the account names it holds to balances
AddTransactionToLedger(transaction, ledger) ==
    LET sender == transaction.sender
        recipient == transaction.recipient
        amount == transaction.amount
    IN IF sender \notin DOMAIN ledger
       THEN [raised |-> "UnknownSender", ledger |-> ledger]
       ELSE IF ledger[sender] - amount < 0
       THEN [raised |-> "Overdraft", ledger |-> ledger]
       ELSE LET l1 == [k \in DOMAIN ledger \cup {recipient} |->
                          IF k \in DOMAIN ledger THEN ledger[k] ELSE 0]
                l2 == [l1 EXCEPT ![sender] = @ - amount]
                l3 == [l2 EXCEPT ![recipient] = @ + amount]
            IN [raised |-> "", ledger |-> l3]

RECURSIVE ReplayRest(_, _)
ReplayRest(txs, ledger) ==
    IF txs = <<>> THEN [raised |-> "", ledger |-> ledger]
    ELSE LET r == AddTransactionToLedger(Head(txs), ledger)
         IN IF r.raised # "" THEN r ELSE ReplayRest(Tail(txs), r.ledger)

CreateLedger(past_transactions) ==
    LET genesis_block == past_transactions[1]
    IN IF (~genesis_block.interned) /\ genesis_block.sender # None
       THEN [raised |-> "MissingGenesis", ledger |-> <<>>]
       ELSE ReplayRest(Tail(past_transactions),
                       [k \in {genesis_block.recipient} |-> genesis_block.amount])

\* ---- state machine ------------------------------------------------------
\* how a call ended: status is "running", "ok" or "raised"; error tells which
\* raise statement was reached; sender and amount are those of the call when
\* it is add_transaction
Outcome(op, status, error) ==
    [op |-> op, status |-> status, error |-> error, sender |-> None, amount |-> 0]

StageOutcome(status, error, sender, amount) ==
    [op |-> "add_transaction", status |-> status, error |-> error,
     sender |-> sender, amount |-> amount]

Init ==
    /\ seed_amount \in 0..MaxSeed
    /\ complexity_level \in 1..MaxLevel
    /\ clock = 1
    /\ transactions = <<>>
    /\ blocks = <<>>
    /\ last_block = 0
    /\ pc = "create_genesis_block"
    /\ index = 0
    /\ timestamp = clock
    /\ block_hash = GetHash(0, clock, GenesisTransactions(clock))
    /\ proof = 0
    /\ new_block = 0
    /\ outcome = Outcome("__init__", "running", "")

Tick ==
    /\ pc = "idle"
    /\ clock < MaxClock
    /\ clock' = clock + 1
    /\ UNCHANGED <<seed_amount, complexity_level, transactions, blocks, last_block,
                   pc, index, timestamp, block_hash, proof, new_block, outcome>>

\* an iteration of get_proof's loop that adds 2 to the counter
GetProofStep_SkipsOne ==
    /\ pc \in {"create_genesis_block", "mine_block"}
    /\ ~ProofFound(block_hash, proof)
    /\ proof < MaxProof
    /\ proof' = proof + 2
    /\ UNCHANGED <<seed_amount, complexity_level, transactions, blocks, last_block,
                   pc, index, timestamp, block_hash, new_block, clock, outcome>>

\* one iteration of get_proof's loop that does not find the proof
GetProofStep ==
    /\ pc \in {"create_genesis_block", "mine_block"}
    /\ ~ProofFound(block_hash, proof)
    /\ proof < MaxProof
    /\ proof' = proof + 1
    /\ UNCHANGED <<seed_amount, complexity_level, transactions, blocks, last_block,
                   pc, index, timestamp, block_hash, new_block, clock, outcome>>

\* get_proof returns; the genesis block is built and becomes last_block
CreateGenesisBlock ==
    /\ pc = "create_genesis_block"
    /\ ProofFound(block_hash, proof)
    /\ blocks' = <<Block(index, timestamp, GenesisTransactions(timestamp), proof, 0)>>
    /\ last_block' = 1
    /\ pc' = "idle"
    /\ index' = 0 /\ timestamp' = 0 /\ block_hash' = <<>> /\ proof' = 0
    /\ outcome' = Outcome("__init__", "ok", "")
    /\ UNCHANGED <<seed_amount, complexity_level, transactions, new_block, clock>>

\* the exception create_ledger raises while replaying the settled transactions
ReplayError(raised) ==
    CASE raised = "MissingGenesis" -> "ReplayMissingGenesis"
      [] raised = "UnknownSender" -> "ReplayUnknownSender"
      [] OTHER -> "ReplayOverdraft"

\* validate_transaction that replays the queue after the settled transactions
ValidateTransaction_WithQueue(new_transaction, past_transactions) ==
    LET replay == CreateLedger(past_transactions)
        queued == IF replay.raised # "" THEN replay
                  ELSE ReplayRest(transactions, replay.ledger)
    IN IF replay.raised # ""
       THEN ReplayError(replay.raised)
       ELSE IF queued.raised # ""
       THEN queued.raised
       ELSE AddTransactionToLedger(new_transaction, queued.ledger).raised

\* validate_transaction: "" when it returns True, what was caught when it
\* returns False, and the exception of create_ledger when that one escapes
ValidateTransaction(new_transaction, past_transactions) ==
    LET replay == CreateLedger(past_transactions)
    IN IF replay.raised # ""
       THEN ReplayError(replay.raised)
       ELSE AddTransactionToLedger(new_transaction, replay.ledger).raised

ValidateFlags == {TRUE}

\* add_transaction that appends to the queue before it validates
AddTransaction_AppendsFirst(sender, recipient, amount, ts, interned, validate_transaction) ==
    /\ pc = "idle"
    /\ LET transaction == [sender |-> sender, recipient |-> recipient,
                           amount |-> amount,
                           timestamp |-> IF Falsy(ts) THEN clock ELSE ts[1],
                           interned |-> interned]
           error == IF validate_transaction
                    THEN ValidateTransaction(transaction, GetSettledTransactions)
                    ELSE ""
       IN /\ Len(RecursiveTransactions(last_block)) + Len(transactions) < MaxTx
          /\ transactions' = Append(transactions, transaction)
          /\ outcome' = IF error # ""
                        THEN StageOutcome("raised", error, sender, amount)
                        ELSE StageOutcome("ok", "", sender, amount)
    /\ UNCHANGED <<seed_amount, complexity_level, blocks, last_block, pc, index,
                   timestamp, block_hash, proof, new_block, clock>>

AddTransaction(sender, recipient, amount, ts, interned, validate_transaction) ==
    /\ pc = "idle"
    /\ LET transaction == [sender |-> sender, recipient |-> recipient,
                           amount |-> amount,
                           timestamp |-> IF Falsy(ts) THEN clock ELSE ts[1],
                           interned |-> interned]
           error == IF validate_transaction
                    THEN ValidateTransaction(transaction, GetSettledTransactions)
                    ELSE ""
       IN IF error # ""
          THEN /\ outcome' = StageOutcome("raised", error, sender, amount)
               /\ UNCHANGED transactions
          ELSE /\ Len(RecursiveTransactions(last_block)) + Len(transactions) < MaxTx
               /\ transactions' = Append(transactions, transaction)
               /\ outcome' = StageOutcome("ok", "", sender, amount)
    /\ UNCHANGED <<seed_amount, complexity_level, blocks, last_block, pc, index,
                   timestamp, block_hash, proof, new_block, clock>>

\* add_block without its test of the queue
AddBlock_NoEmptyCheck ==
    /\ pc = "idle"
    /\ pc' = "mine_block"
    /\ index' = blocks[last_block].index + 1
    /\ timestamp' = clock
    /\ block_hash' = GetHash(index', timestamp', transactions)
    /\ proof' = 0
    /\ outcome' = Outcome("add_block", "running", "")
    /\ UNCHANGED <<seed_amount, complexity_level, transactions, blocks, last_block,
                   new_block, clock>>

\* add_block whose mine_block gives the new block the index of last_block
AddBlock_SameIndex ==
    /\ pc = "idle"
    /\ IF transactions = <<>>
       THEN /\ outcome' = Outcome("add_block", "raised", "EmptyQueue")
            /\ UNCHANGED <<pc, index, timestamp, block_hash, proof>>
       ELSE /\ pc' = "mine_block"
            /\ index' = blocks[last_block].index
            /\ timestamp' = clock
            /\ block_hash' = GetHash(index', timestamp', transactions)
            /\ proof' = 0
            /\ outcome' = Outcome("add_block", "running", "")
    /\ UNCHANGED <<seed_amount, complexity_level, transactions, blocks, last_block,
                   new_block, clock>>

\* add_block up to the call of get_proof inside mine_block
AddBlock ==
    /\ pc = "idle"
    /\ IF transactions = <<>>
       THEN /\ outcome' = Outcome("add_block", "raised", "EmptyQueue")
            /\ UNCHANGED <<pc, index, timestamp, block_hash, proof>>
       ELSE /\ pc' = "mine_block"
            /\ index' = blocks[last_block].index + 1
            /\ timestamp' = clock
            /\ block_hash' = GetHash(index', timestamp', transactions)
            /\ proof' = 0
            /\ outcome' = Outcome("add_block", "running", "")
    /\ UNCHANGED <<seed_amount, complexity_level, transactions, blocks, last_block,
                   new_block, clock>>

\* mine_block that already makes the new block the last_block
MineBlock_LinksBlock ==
    /\ pc = "mine_block"
    /\ ProofFound(block_hash, proof)
    /\ blocks' = Append(blocks, Block(index, timestamp, transactions, proof, last_block))
    /\ new_block' = Len(blocks) + 1
    /\ last_block' = Len(blocks) + 1
    /\ pc' = "verify_block"
    /\ index' = 0 /\ timestamp' = 0 /\ block_hash' = <<>> /\ proof' = 0
    /\ UNCHANGED <<seed_amount, complexity_level, transactions, clock, outcome>>

\* get_proof returns inside mine_block; the new Block is built
MineBlock ==
    /\ pc = "mine_block"
    /\ ProofFound(block_hash, proof)
    /\ blocks' = Append(blocks, Block(index, timestamp, transactions, proof, last_block))
    /\ new_block' = Len(blocks) + 1
    /\ pc' = "verify_block"
    /\ index' = 0 /\ timestamp' = 0 /\ block_hash' = <<>> /\ proof' = 0
    /\ UNCHANGED <<seed_amount, complexity_level, transactions, last_block, clock,
                   outcome>>

\* add_block that does not clear the queue
AddBlockVerify_KeepsQueue ==
    /\ pc = "verify_block"
    /\ IF ~VerifyBlock(blocks[new_block])
       THEN /\ outcome' = Outcome("add_block", "raised", "VerifyFailed")
            /\ UNCHANGED <<transactions, last_block>>
       ELSE /\ transactions' = transactions
            /\ last_block' = new_block
            /\ outcome' = Outcome("add_block", "ok", "")
    /\ pc' = "idle"
    /\ new_block' = 0
    /\ UNCHANGED <<seed_amount, complexity_level, blocks, index, timestamp,
                   block_hash, proof, clock>>

\* the rest of add_block: verify the new block, clear the queue, move last_block
AddBlockVerify ==
    /\ pc = "verify_block"
    /\ IF ~VerifyBlock(blocks[new_block])
       THEN /\ outcome' = Outcome("add_block", "raised", "VerifyFailed")
            /\ UNCHANGED <<transactions, last_block>>
       ELSE /\ transactions' = <<>>
            /\ last_block' = new_block
            /\ outcome' = Outcome("add_block", "ok", "")
    /\ pc' = "idle"
    /\ new_block' = 0
    /\ UNCHANGED <<seed_amount, complexity_level, blocks, index, timestamp,
                   block_hash, proof, clock>>

StageSome ==
    \E sender \in Senders, recipient \in Recipients, amount \in Amounts,
       ts \in Timestamps, interned \in BOOLEAN, validate_transaction \in ValidateFlags :
        /\ interned => recipient = Genesis
        /\ AddTransaction(sender, recipient, amount, ts, interned, validate_transaction)

Next ==
    \/ Tick
    \/ GetProofStep
    \/ CreateGenesisBlock
    \/ StageSome
    \/ AddBlock
    \/ MineBlock
    \/ AddBlockVerify

Spec == Init /\ [][Next]_vars

\* the interpreter keeps running the method it is in
FairSpec ==
    /\ Spec
    /\ WF_vars(GetProofStep)
    /\ WF_vars(CreateGenesisBlock)
    /\ WF_vars(MineBlock)
    /\ WF_vars(AddBlockVerify)

\* ---- views of the state -------------------------------------------------
Searching == pc \in {"create_genesis_block", "mine_block"}

TypeOK ==
    /\ pc \in {"create_genesis_block", "idle", "mine_block", "verify_block"}
    /\ last_block \in 0..Len(blocks)
    /\ new_block \in 0..Len(blocks)
    /\ Len(transactions) < MaxTx
    /\ Len(blocks) <= MaxTx

\* in the model every search at the default complexity finds its proof
SearchEnds ==
    (Searching /\ complexity_level = PrefixLen) =>
        \E p \in proof..MaxProof : ProofFound(block_hash, p)

\* the identities of the blocks reachable from b through previous_block
RECURSIVE ChainIds(_)
ChainIds(b) == IF b = 0 THEN {} ELSE {b} \cup ChainIds(blocks[b].previous_block)

Created == last_block # 0

\* create_ledger(get_settled_transactions()) of the current chain
LedgerSnapshot == CreateLedger(GetSettledTransactions)

RECURSIVE SumOver(_, _)
SumOver(ledger, keys) ==
    IF keys = {} THEN 0
    ELSE LET k == CHOOSE x \in keys : TRUE
         IN ledger[k] + SumOver(ledger, keys \ {k})

\* sum(ledger.values())
Total(ledger) == SumOver(ledger, DOMAIN ledger)

Committed == outcome.op = "add_block" /\ outcome.status = "ok"

\* ---- claims -------------------------------------------------------------

\* C1: after every successful add_block the ledger replayed from the settled
\* transactions exists, its balances sum to seed_amount, and
\* verify_blockchain() is true.
C1_ConservationAfterCommit ==
    (pc = "idle" /\ Committed) =>
        /\ LedgerSnapshot.raised = ""
        /\ Total(LedgerSnapshot.ledger) = seed_amount
        /\ VerifyBlockchain

\* C2: for every complexity_level >= 1 and seed_amount >= 0 the proof search
\* of the genesis block ends (some nonce passes get_proof's test), and the
\* chain then passes verify_blockchain and verify_block(last_block).
C2_CreationCompletes ==
    /\ (pc = "create_genesis_block" /\ complexity_level >= 1 /\ seed_amount >= 0) =>
           \E p \in proof..MaxProof : ProofFound(block_hash, p)
    /\ Created => (VerifyBlockchain /\ VerifyBlock(blocks[last_block]))

\* the step is a call of add_transaction (the other steps taken when no
\* method is running move the clock or are calls of add_block)
StageStep ==
    /\ pc = "idle" /\ pc' = "idle"
    /\ clock' = clock
    /\ outcome'.op = "add_transaction"

\* C3: with validation on, staging a transaction whose amount exceeds the
\* sender's balance in the ledger replayed from the chain is rejected as an
\* overdraft and the queue keeps its content.
C3_OverdraftRejected ==
    [][( /\ StageStep
         /\ LedgerSnapshot.raised = ""
         /\ outcome'.sender \in DOMAIN LedgerSnapshot.ledger
         /\ outcome'.amount > LedgerSnapshot.ledger[outcome'.sender] )
       => ( /\ outcome'.status = "raised"
            /\ outcome'.error = "Overdraft"
            /\ transactions' = transactions )]_vars

C3_Witness ==
    /\ outcome.op = "add_transaction"
    /\ outcome.error = "Overdraft"
    /\ blocks[last_block].index >= 1
    /\ LedgerSnapshot.raised = ""
    /\ outcome.sender \in DOMAIN LedgerSnapshot.ledger
    /\ outcome.amount > LedgerSnapshot.ledger[outcome.sender]

\* no settled transaction has this account as its recipient
NoInflow(account) ==
    LET settled == GetSettledTransactions
    IN \A i \in DOMAIN settled : settled[i].recipient # account

C5_EmptyCommitRejected ==
    [][(AddBlock /\ transactions = <<>>)
        => ( /\ outcome' = Outcome("add_block", "raised", "EmptyQueue")
             /\ pc' = "idle"
             /\ UNCHANGED <<last_block, blocks, transactions, proof, new_block>> )]_vars

C5_Witness ==
    /\ outcome = Outcome("add_block", "raised", "EmptyQueue")
    /\ blocks[last_block].index >= 1
    /\ transactions = <<>>

\* the chain is the same before and after the step
ChainUnchanged ==
    /\ last_block' = last_block
    /\ \A b \in ChainIds(last_block) : blocks'[b] = blocks[b]

\* C6: a call of add_transaction or add_block that raises leaves the queue,
\* last_block and every block of the chain as they were when it was called
\* (no step inside add_block before its last one touches them), and
\* add_transaction never changes the chain.
C6_AllOrNothing ==
    [][ /\ (outcome'.status = "raised")
            => (transactions' = transactions /\ ChainUnchanged)
        /\ (pc' \in {"mine_block", "verify_block"})
            => (transactions' = transactions /\ ChainUnchanged)
        /\ StageStep => ChainUnchanged ]_vars

C6_Witness ==
    /\ outcome.op = "add_transaction"
    /\ outcome.status = "raised"
    /\ transactions # <<>>
    /\ blocks[last_block].index >= 1

\* C7: every balance of the ledger replayed from the settled transactions is
\* >= 0.
C7_Solvency ==
    (Created /\ LedgerSnapshot.raised = "") =>
        \A k \in DOMAIN LedgerSnapshot.ledger : LedgerSnapshot.ledger[k] >= 0

\* C8: in every state, also inside add_block, every block of the chain
\* passes verify_block; add_block moves last_block only in its last step, to
\* the block it built, and that block passes verify_block.
C8_OnlyVerifiedBlocksLinked ==
    /\ [](\A b \in ChainIds(last_block) : VerifyBlock(blocks[b]))
    /\ [][(last_block # 0 /\ last_block' # last_block)
            => ( /\ pc = "verify_block"
                 /\ last_block' = new_block
                 /\ VerifyBlock(blocks[new_block]) )]_vars

C8_Witness ==
    /\ pc = "verify_block"
    /\ blocks[last_block].index >= 1
    /\ new_block \notin ChainIds(last_block)

\* C9: add_block on a non-empty queue starts mining, the mining ends, and
\* the call makes a block the new last_block whose index is the old one's + 1,
\* whose previous_block is the old last_block and whose transactions are the
\* queue in its order; the queue is then empty.
C9_CommitAppendsQueue ==
    /\ [][ /\ (AddBlock /\ transactions # <<>>)
               => (pc' = "mine_block" /\ outcome'.status = "running")
           /\ (pc = "verify_block")
               => ( /\ outcome' = Outcome("add_block", "ok", "")
                    /\ last_block' # last_block
                    /\ blocks'[last_block'].index = blocks[last_block].index + 1
                    /\ blocks'[last_block'].previous_block = last_block
                    /\ blocks'[last_block'].transactions = transactions
                    /\ transactions # <<>>
                    /\ transactions' = <<>> ) ]_vars
    /\ (pc = "mine_block") ~> (pc = "idle" /\ Committed)

C9_Witness ==
    /\ pc = "idle"
    /\ Committed
    /\ Len(blocks[last_block].transactions) >= 2
    /\ transactions = <<>>

\* Blockchain.__len__
ChainLen == blocks[last_block].index + 1

\* C10: in the chain, index = 0 exactly for the block without previous_block,
\* every other block has the index of its previous_block + 1, the block of
\* index 0 holds the one seed transaction, and the number of blocks of the
\* chain is __len__.
C10_Linkage ==
    Created =>
        /\ \A b \in ChainIds(last_block) :
              /\ (blocks[b].index = 0) <=> (blocks[b].previous_block = 0)
              /\ blocks[b].previous_block # 0 =>
                     blocks[b].index = blocks[blocks[b].previous_block].index + 1
              /\ blocks[b].index = 0 =>
                     /\ Len(blocks[b].transactions) = 1
                     /\ blocks[b].transactions[1].sender = None
                     /\ blocks[b].transactions[1].recipient = Genesis
                     /\ blocks[b].transactions[1].amount = seed_amount
        /\ \E b \in ChainIds(last_block) : blocks[b].previous_block = 0
        /\ Cardinality(ChainIds(last_block)) = ChainLen

C10_Witness ==
    /\ Created
    /\ ChainLen = 3
    /\ pc = "idle"

\* the first n characters of the hexdigest d are all "0"
LeadingZeros(d, n) == n <= Len(d) /\ \A i \in 1..n : d[i] = 0

\* C11: verify_block accepts a block exactly when the first complexity_level
\* characters of sha256(hash + proof) are "0", for every complexity_level
\* >= 1, and the loop of get_proof stops on the same test.
C11_LeadingZerosTest ==
    /\ Searching =>
          /\ ProofFound(block_hash, proof)
                 <=> LeadingZeros(Sha256Hex(block_hash \o Str(proof)), complexity_level)
          /\ ProofFound(block_hash, proof)
                 <=> VerifyBlock([hash |-> block_hash, proof |-> proof])
    /\ \A b \in DOMAIN blocks :
          VerifyBlock(blocks[b])
              <=> LeadingZeros(Sha256Hex(blocks[b].hash \o Str(blocks[b].proof)),
                               complexity_level)

\* the transaction is the genesis credit: minted, and paid to the seed account
IsGenesisCredit(t) == t.sender = None /\ t.recipient = Genesis

\* C12: create_ledger raises "Valid genesis block not found" whenever the
\* first of the sorted transactions has a sender other than None or a
\* recipient other than "genesis", and only then.
C12_MissingGenesis ==
    Created =>
        (LedgerSnapshot.raised = "MissingGenesis"
            <=> ~IsGenesisCredit(GetSettledTransactions[1]))

\* the sum of the amounts of the transactions of txs sent by account
RECURSIVE SentBy(_, _)
SentBy(txs, account) ==
    IF txs = <<>> THEN 0
    ELSE (IF Head(txs).sender = account THEN Head(txs).amount ELSE 0)
         + SentBy(Tail(txs), account)

\* what account holds in the ledger, 0 when the ledger does not hold it
Balance(ledger, account) ==
    IF account \in DOMAIN ledger THEN ledger[account] ELSE 0

\* no transaction of txs has a negative amount
NoNegativeAmount(txs) == \A i \in DOMAIN txs : txs[i].amount >= 0

\* C13: whenever the ledger replayed from the chain exists, the amounts of the
\* queued transactions of any one sender sum to at most that sender's balance
\* in it, so the queue never holds transactions that overdraw together.  It
\* is stated for the histories in which no amount was negative.
C13_NoJointOverdraft ==
    ( /\ Created /\ LedgerSnapshot.raised = ""
      /\ NoNegativeAmount(GetSettledTransactions)
      /\ NoNegativeAmount(transactions) ) =>
        \A account \in Senders :
            SentBy(transactions, account) <= Balance(LedgerSnapshot.ledger, account)

\* C14: whatever timestamps the callers of add_transaction supply, the first
\* of get_settled_transactions() is the genesis transaction, and
\* create_ledger never fails on the chain for want of it.
C14_GenesisStaysFirst ==
    Created =>
        /\ IsGenesisCredit(GetSettledTransactions[1])
        /\ GetSettledTransactions[1] = blocks[1].transactions[1]
        /\ LedgerSnapshot.raised # "MissingGenesis"

\* what the chain alone makes of a transaction of amount sent by sender: ""
\* when it fits the ledger replayed from the chain, else the rejection
ChainVerdict(sender, amount) ==
    IF LedgerSnapshot.raised # ""
    THEN ReplayError(LedgerSnapshot.raised)
    ELSE IF sender \notin DOMAIN LedgerSnapshot.ledger
    THEN "UnknownSender"
    ELSE IF amount > LedgerSnapshot.ledger[sender]
    THEN "Overdraft"
    ELSE ""

\* C15: whether add_transaction accepts or rejects is decided by the chain
\* and the arguments alone: the result is the verdict of the ledger replayed
\* from the chain, whatever the queue holds.
C15_QueueBlindStage ==
    [][StageStep =>
        /\ outcome'.error = ChainVerdict(outcome'.sender, outcome'.amount)
        /\ outcome'.status = "ok" <=> outcome'.error = ""
        /\ outcome'.status = "raised" <=> outcome'.error # "" ]_vars

\* accepted although the queue already spends the sender's whole balance
C15_Witness ==
    /\ outcome.op = "add_transaction"
    /\ outcome.status = "ok"
    /\ Len(transactions) >= 2
    /\ LedgerSnapshot.raised = ""
    /\ NoNegativeAmount(transactions)
    /\ outcome.amount >= 1
    /\ SentBy(transactions, outcome.sender)
           > Balance(LedgerSnapshot.ledger, outcome.sender)

\* how often t occurs in the sequence seq
Count(seq, t) == Cardinality({i \in DOMAIN seq : seq[i] = t})

\* how often t occurs in the transactions of the blocks ids
RECURSIVE CountInBlocks(_, _)
CountInBlocks(ids, t) ==
    IF ids = {} THEN 0
    ELSE LET b == CHOOSE x \in ids : TRUE
         IN Count(blocks[b].transactions, t) + CountInBlocks(ids \ {b}, t)

\* C16: get_settled_transactions() holds every transaction of every block of
\* the chain exactly as often as the blocks hold it and nothing else, in
\* ascending order of timestamp whatever block a transaction is in; the call
\* (made by every add_transaction) changes neither the chain nor the queue.
C16_SettledIsSortedChain ==
    /\ [](Created =>
            LET settled == GetSettledTransactions
                chain == ChainIds(last_block)
            IN /\ \A i \in 1..(Len(settled) - 1) :
                      settled[i].timestamp <= settled[i + 1].timestamp
               /\ \A i \in DOMAIN settled :
                      Count(settled, settled[i]) = CountInBlocks(chain, settled[i])
               /\ \A b \in chain : \A i \in DOMAIN blocks[b].transactions :
                      Count(settled, blocks[b].transactions[i])
                          = CountInBlocks(chain, blocks[b].transactions[i]))
    /\ [][(StageStep /\ outcome'.status = "raised")
            => (ChainUnchanged /\ blocks' = blocks /\ transactions' = transactions)]_vars

\* three blocks, the last one holding the earliest transaction: the order
\* the transactions are collected in is not the sorted one
C16_Witness ==
    /\ Created
    /\ pc = "idle"
    /\ ChainLen = 3
    /\ blocks[last_block].transactions[1].timestamp < blocks[1].timestamp
    /\ RecursiveTransactions(last_block) # GetSettledTransactions
    /\ outcome.op = "add_transaction"

\* C17: a successful add_transaction leaves the entries of the queue as they
\* were and appends one transaction whose sender, recipient, amount and,
\* when a timestamp was passed, timestamp are the arguments of the call.
C17_StageAppendsArguments ==
    [][(StageStep /\ outcome'.status = "ok") =>
        /\ Len(transactions') = Len(transactions) + 1
        /\ SubSeq(transactions', 1, Len(transactions)) = transactions
        /\ \A sender \in Senders, recipient \in Recipients, amount \in Amounts,
              ts \in Timestamps, interned \in BOOLEAN :
              AddTransaction(sender, recipient, amount, ts, interned, TRUE) =>
                  LET t == transactions'[Len(transactions')]
                  IN /\ t.sender = sender
                     /\ t.recipient = recipient
                     /\ t.amount = amount
                     /\ ts # <<>> => t.timestamp = ts[1] ]_vars

\* the step is the last one of an add_block that succeeds
CommitStep == pc = "verify_block" /\ outcome'.status = "ok"

\* C18: every block of the chain stays in the chain, unchanged, at every
\* step, so every settled transaction stays settled; the index of last_block
\* grows by exactly 1 in the last step of a successful add_block and
\* last_block is left alone by every other step.
C18_AppendOnly ==
    [][Created =>
        /\ \A b \in ChainIds(last_block) :
              /\ b \in ChainIds(last_block)'
              /\ blocks'[b] = blocks[b]
        /\ last_block' # last_block =>
               LET before == GetSettledTransactions
                   after == GetSettledTransactions'
               IN \A i \in DOMAIN before :
                      Count(after, before[i]) >= Count(before, before[i])
        /\ CommitStep => blocks'[last_block'].index = blocks[last_block].index + 1
        /\ ~CommitStep => last_block' = last_block ]_vars

C18_Witness ==
    /\ Committed
    /\ ChainLen = 3
    /\ Cardinality(ChainIds(last_block)) = 3
    /\ blocks[blocks[last_block].previous_block].index = 1

\* ---- callers that pass None as the recipient -----------------------------
\* add_transaction does not look at its recipient argument: None is stored
\* like a name
StageNoneRecipient ==
    \E sender \in Senders, amount \in Amounts, ts \in Timestamps,
       validate_transaction \in ValidateFlags :
        AddTransaction(sender, None, amount, ts, FALSE, validate_transaction)

NextNoneRecipient ==
    \/ Next
    \/ StageNoneRecipient

SpecNoneRecipient == Init /\ [][NextNoneRecipient]_vars

\* C19: add_transaction with validation never accepts a transaction whose
\* sender is None, whatever recipients earlier transactions had: the seed
\* transaction of the genesis block is the only transaction of the queue and
\* of the chain whose sender is None.
C19_NoMintAfterGenesis ==
    Created =>
        /\ ~(outcome.op = "add_transaction" /\ outcome.status = "ok"
               /\ outcome.sender = None)
        /\ \A i \in DOMAIN transactions : transactions[i].sender # None
        /\ \A b \in ChainIds(last_block) : \A i \in DOMAIN blocks[b].transactions :
              blocks[b].transactions[i].sender = None
                  => (blocks[b].previous_block = 0 /\ i = 1)

\* C20: get_proof returns the smallest nonce that passes its test: while it
\* searches, every nonce below its counter has failed, and the proof of every
\* block built is a nonce that passes while every smaller one fails.
C20_SmallestProof ==
    /\ Searching => \A n \in 0..(proof - 1) : ~ProofFound(block_hash, n)
    /\ \A b \in DOMAIN blocks :
          /\ ProofFound(blocks[b].hash, blocks[b].proof)
          /\ \A n \in 0..(blocks[b].proof - 1) : ~ProofFound(blocks[b].hash, n)

\* a mined block whose proof was found after several failed nonces
C20_Witness ==
    /\ Created
    /\ \E b \in ChainIds(last_block) :
          /\ blocks[b].previous_block # 0
          /\ blocks[b].proof >= 3
          /\ ~ProofFound(blocks[b].hash, blocks[b].proof - 1)
====
